---- MODULE Spec2Model ----
(***************************************************************************)
(* whoshome: the UnifiDreamRouter client (src/src/unifi_dream_router.rs).  *)
(*                                                                         *)
(* One client instance holds the stored CSRF token (csrf_token).  A caller *)
(* runs one of the four Router operations; every operation goes through    *)
(* send(), which attaches the stored token, sends, logs in once after a    *)
(* 401 and re-sends the cloned request.  The router and the .netrc file    *)
(* are the environment: every reply and every file content is an input.    *)
(*                                                                         *)
(* An action is the code a caller runs between two HTTP exchanges: the     *)
(* only places where a call waits are the exchanges themselves, so these   *)
(* are the only points at which another call on the same instance can run. *)
(***************************************************************************)
EXTENDS Integers, Sequences, FiniteSets, TLC

\* ---------------------------------------------------------------- bounds
\* Calls started on the instance in one run, one caller at a time.
MaxCalls == 3
\* Calls started on the instance in one run when two callers share it.
MaxSharedCalls == 2
\* Calls started in one run of the specification with fairness.
MaxFairCalls == 2
\* CSRF tokens the router issues in one run (token k is the k-th issued).
MaxTokens == 2
\* Raw client records in one listing response.
MaxData == 1
\* Machine entries in the .netrc file.
MaxMachines == 2
\* The longest client list the decoding is given on its own.
MaxRecords == 3
\* The longest list given to changes().
MaxLen == 3

\* ------------------------------------------------------------- constants
UNAUTHORIZED == 401

\* config.router, the host the instance is built for.
Hostname == "udr"

Callers == {"a", "b"}

Ops == {"known_clients", "online_clients", "block_client", "unblock_client"}

Listings == {"known_clients", "online_clients"}

\* Option<T>.
None == [some |-> FALSE]

Some(v) == [some |-> TRUE, val |-> v]

\* Result<T>.
Ok(v) == [ok |-> TRUE, val |-> v]

Err(e) == [ok |-> FALSE, err |-> e]

\* The unit value of Result<()>.
Unit == "()"

Tokens == 1..MaxTokens

\* A header value: text that HeaderValue::to_str accepts, or opaque bytes.
Text(t) == [ascii |-> TRUE, text |-> t]

Opaque == [ascii |-> FALSE]

\* The x-csrf-token header of a response: absent, a token, or opaque bytes.
HeaderOf(t) == Some(Text(t))

BadHeader == Some(Opaque)

\* The statuses that reach the code: success, session expired, server
\* failure.  The transport follows redirects itself and the client sends no
\* conditional request, so a final status is 2xx, 4xx or 5xx.
Statuses == {200, UNAUTHORIZED, 500}

\* The Client values callers pass to block_client / unblock_client.
Clients == {[name |-> "phone", mac |-> "aa:aa"],
            [name |-> "<unnamed client>", mac |-> "bb:bb"]}

\* Raw records of a listing response: UnifiClient { name: Option, mac }.
UnifiClients == {[name |-> None, mac |-> "aa:aa"],
                 [name |-> Some("phone"), mac |-> "bb:bb"]}

RECURSIVE SeqsUpTo(_, _)
SeqsUpTo(S, n) ==
    IF n = 0 THEN {<<>>}
    ELSE LET shorter == SeqsUpTo(S, n - 1)
         IN  shorter \cup {Append(s, x) : s \in shorter, x \in S}

\* A response body: JSON of the shape { data: [ { name?, mac } ] }, or not.
Json(data) == [json |-> TRUE, data |-> data]

BadBody == [json |-> FALSE]

Bodies == {BadBody} \cup {Json(d) : d \in SeqsUpTo(UnifiClients, MaxData)}

\* .netrc machine entries: Machine { name, login, password }.  Three entries
\* for this host (one without a password) and one for another host.
Machines ==
    {[name |-> Some(Hostname), login |-> Some("peter@peca.dk"), password |-> Some("pw1")],
     [name |-> Some(Hostname), login |-> Some("admin"), password |-> Some("pw2")],
     [name |-> Some(Hostname), login |-> Some("admin"), password |-> None],
     [name |-> Some("other"), login |-> Some("admin"), password |-> Some("pw3")]}

\* The .netrc file as login() finds it: unreadable (no home directory, no
\* file, or a parse error), or its list of machines.
Unreadable == [readable |-> FALSE]

Readable(ms) == [readable |-> TRUE, machines |-> ms]

Netrcs == {Unreadable} \cup {Readable(f) : f \in SeqsUpTo(Machines, MaxMachines)}

\* ------------------------------------------------------------ endpoints
\* Early::new("https", host).path(..)...build(): a URL is its scheme, host
\* and path segments.
Url(host, path) == <<"https", host>> \o path

login_url == Url(Hostname, <<"api", "auth", "login">>)

site_url == Url(Hostname, <<"proxy", "network", "api", "s", "default">>)

known_devices_url == site_url \o <<"rest", "user">>

connected_devices_url == site_url \o <<"stat", "sta">>

\* format!("{}/cmd/stamgr", self.site_url)
cmd_url == site_url \o <<"cmd", "stamgr">>

\* ------------------------------------------------------------- requests
\* A request as built by RequestBuilder: method, URL, the x-csrf-token
\* header (Option) and the JSON body (Option).
Request(method, url, body) ==
    [method |-> method, url |-> url, csrf |-> None, body |-> body]

\* The header is not attached.
WithHeader_dropped(request, t) == request

\* RequestBuilder::header("x-csrf-token", t)
WithHeader(request, t) == [request EXCEPT !.csrf = Some(t)]

\* The clone is built anew, without the headers of the request.
try_clone_bare(request) == Some([request EXCEPT !.csrf = None])

\* RequestBuilder::try_clone: None only for a streaming body; the bodies
\* built here are absent or serialized JSON, so the clone always exists.
try_clone(request) == Some(request)

BlockCommand_new(mac) == [cmd |-> "block-sta", mac |-> mac]

\* The unblock command built as a copy of the block command.
UnblockCommand_new_copied(mac) == [cmd |-> "block-sta", mac |-> mac]

UnblockCommand_new(mac) == [cmd |-> "unblock-sta", mac |-> mac]

Login(username, password) == [username |-> username, password |-> password]

\* The request each operation builds before it calls send().
BuildRequest(op, client) ==
    CASE op = "known_clients"  -> Request("GET", known_devices_url, None)
      [] op = "online_clients" -> Request("GET", connected_devices_url, None)
      [] op = "block_client"   ->
            Request("POST", cmd_url, Some(BlockCommand_new(client.mac)))
      [] op = "unblock_client" ->
            Request("POST", cmd_url, Some(UnblockCommand_new(client.mac)))

\* The second GET a listing operation sends after send() has returned.
FollowupRequest(op) ==
    IF op = "known_clients"
    THEN Request("GET", known_devices_url, None)
    ELSE Request("GET", connected_devices_url, None)

\* ------------------------------------------------------------ responses
\* Response::error_for_status: an error for 4xx and 5xx, the response
\* itself for every other status.
error_for_status(response) ==
    IF response.status >= 400 /\ response.status <= 599
    THEN Err([kind |-> "status", status |-> response.status])
    ELSE Ok(response)

\* A response without the header is taken for an error.
get_csrf_token_required(headers) ==
    IF ~headers.some THEN Err([kind |-> "csrf header"])
    ELSE IF ~headers.val.ascii
         THEN Err([kind |-> "csrf header"])
         ELSE Ok(Some(headers.val.text))

\* The header is looked up under another name and never found.
get_csrf_token_misnamed(headers) == Ok(None)

get_csrf_token(headers) ==
    IF ~headers.some THEN Ok(None)
    ELSE IF ~headers.val.ascii
         THEN Err([kind |-> "csrf header"])
         ELSE Ok(Some(headers.val.text))

\* UnifiClient::name
\* Option::unwrap_or_default in the place of unwrap_or_else: no placeholder.
name_unwrap_or_default(c) == IF c.name.some THEN c.name.val ELSE ""

name(c) == IF c.name.some THEN c.name.val ELSE "<unnamed client>"

\* Response::json::<RouterResponse<UnifiClient>>() and the map to Client.
DecodeClients(body) ==
    IF ~body.json THEN Err([kind |-> "decode"])
    ELSE Ok([i \in 1..Len(body.data) |->
                [name |-> name(body.data[i]), mac |-> body.data[i].mac]])

\* ---------------------------------------------------------- credentials
\* The index of the first machine of the file whose name is `machine`, 0 if
\* there is none: Iterator::find.
RECURSIVE FindFrom(_, _, _)
FindFrom(ms, machine, i) ==
    IF i > Len(ms) THEN 0
    ELSE IF ms[i].name = Some(machine) THEN i
    ELSE FindFrom(ms, machine, i + 1)

\* The machine entry get_password reads the password from, if the file is
\* readable and names the machine.
FindMachine(netrc, machine) ==
    IF ~netrc.readable THEN None
    ELSE LET i == FindFrom(netrc.machines, machine, 1)
         IN  IF i = 0 THEN None ELSE Some(netrc.machines[i])

\* A host the file does not name gets an empty password.
get_password_default(netrc, machine) ==
    IF ~netrc.readable THEN Ok("")
    ELSE LET m == FindMachine(netrc, machine)
         IN  IF ~m.some THEN Ok("")
             ELSE IF ~m.val.password.some
                  THEN Err([kind |-> "no password"])
                  ELSE Ok(m.val.password.val)

get_password(netrc, machine) ==
    IF ~netrc.readable THEN Err([kind |-> "netrc"])
    ELSE LET m == FindMachine(netrc, machine)
         IN  IF ~m.some THEN Err([kind |-> "no machine"])
             ELSE IF ~m.val.password.some
                  THEN Err([kind |-> "no password"])
                  ELSE Ok(m.val.password.val)

\* ------------------------------------------------------ the token's Cell
\* Cell::take: the value, and None left in the cell.
Take(cell) == [value |-> cell, cell |-> None]

\* The token taken out of the cell is not put back.
add_csrf_header_taken(cell, request) ==
    LET taken == Take(cell)
    IN  IF taken.value.some
        THEN [request |-> WithHeader(request, taken.value.val),
              cell |-> taken.cell]
        ELSE [request |-> request, cell |-> taken.cell]

\* add_csrf_header: the request to send and the cell as the call leaves it.
add_csrf_header(cell, request) ==
    LET taken == Take(cell)
    IN  IF taken.value.some
        THEN [request |-> WithHeader(request, taken.value.val),
              cell |-> Some(taken.value.val)]
        ELSE [request |-> request, cell |-> taken.cell]

\* ---------------------------------------------------------------- state
VARIABLES
    csrf_token, \* UnifiDreamRouter.csrf_token: Cell<Option<String>>
    pc,         \* per caller: "idle", the exchange it waits in, or "done"
    op,         \* per caller: the operation it runs
    arg,        \* per caller: the Client passed to block / unblock, an Option
    backup,     \* per caller: send()'s clone of the request, an Option
    returned,   \* per caller: the response send() returned, an Option
    result,     \* per caller: what the operation returned, an Option
    found,      \* per caller: the .netrc entry login() read, an Option
    net,        \* per caller: the reply on its way to it, an Option
    sent,       \* per caller: the requests of this call, in sending order
    rcvd,       \* per caller: the replies this call has processed, in order
    start,      \* per caller: the stored token when the call began
    prev,       \* per caller: its previous call, summarised
    issued,     \* the number of tokens the router has issued
    calls,      \* the number of calls started
    limit,      \* the number of calls this run may start
    traced,     \* whether this run records found, sent, rcvd, start and prev
    writer,     \* the caller whose call stored csrf_token last, an Option
    reply,      \* a listing reply given to the decoding on its own, an Option
    listed,     \* what the decoding made of reply, an Option
    before,     \* changes(): its first argument
    after,      \* changes(): its second argument
    diff        \* changes(): what it returned, an Option

\* The variables of the functions that are run on their own.
pure_vars == <<reply, listed, before, after, diff>>

\* The variables of the client and of the calls made on it.
client_vars == <<csrf_token, pc, op, arg, backup, returned, result, found, net,
                 sent, rcvd, start, prev, issued, calls, limit, traced, writer>>

vars == <<csrf_token, pc, op, arg, backup, returned, result, found, net, sent,
          rcvd, start, prev, issued, calls, limit, traced, writer, pure_vars>>

Waiting == {"original", "login", "retry", "followup"}

\* A transport failure (connect, TLS, timeout): RequestBuilder::send is Err.
TransportError == [failed |-> TRUE]

Reply(status, csrf, body) ==
    [failed |-> FALSE, status |-> status, csrf |-> csrf, body |-> body]

\* What the router can answer to a request of method `method` of a caller
\* waiting in `at`.
\* The token of a reply is the next one the router issues.  The code drops
\* an error reply whole and never reads the headers of the follow-up reply,
\* so those carry no token; only a reply to a GET carries a client list.
Replies(method, at) ==
    LET csrfs == IF at = "followup" THEN {None}
                 ELSE {None, BadHeader} \cup
                      (IF issued < MaxTokens THEN {HeaderOf(issued + 1)} ELSE {})
        lists == IF traced THEN Bodies ELSE {Json(<<>>)}
        bodies == IF method = "GET" THEN {Some(b) : b \in lists} ELSE {None}
    IN  {TransportError}
        \cup {Reply(st, None, None) : st \in {x \in Statuses : x >= 400}}
        \cup {Reply(st, h, b) : st \in {x \in Statuses : x < 400},
                                h \in csrfs, b \in bodies}

Init ==
    /\ csrf_token = None
    /\ pc = [p \in Callers |-> "idle"]
    /\ op = [p \in Callers |-> "known_clients"]
    /\ arg = [p \in Callers |-> None]
    /\ backup = [p \in Callers |-> None]
    /\ returned = [p \in Callers |-> None]
    /\ result = [p \in Callers |-> None]
    /\ found = [p \in Callers |-> None]
    /\ net = [p \in Callers |-> None]
    /\ sent = [p \in Callers |-> <<>>]
    /\ rcvd = [p \in Callers |-> <<>>]
    /\ start = [p \in Callers |-> None]
    /\ prev = [p \in Callers |-> None]
    /\ issued = 0
    /\ calls = 0
    /\ limit = MaxCalls
    /\ traced = TRUE
    /\ writer = None
    /\ reply = None
    /\ listed = None
    /\ before = <<>>
    /\ after = <<>>
    /\ diff = None

\* ------------------------------------------------------------ the steps
\* The operation returns r.
Return(p, r) ==
    /\ pc' = [pc EXCEPT ![p] = "done"]
    /\ result' = [result EXCEPT ![p] = Some(r)]

\* Request req goes out and the caller waits for its reply in `at`.
Transmit(p, req, at) ==
    /\ pc' = [pc EXCEPT ![p] = at]
    /\ sent' = [sent EXCEPT ![p] =
                    IF traced THEN Append(@, [at |-> at, request |-> req]) ELSE @]

\* The reply in flight is taken off the wire.
Receive(p) ==
    /\ net' = [net EXCEPT ![p] = None]
    /\ rcvd' = [rcvd EXCEPT ![p] = IF traced THEN Append(@, net[p].val) ELSE @]

\* A finished call as the next call of the same caller remembers it.
Summary(p) ==
    [op |-> op[p], start |-> start[p],
     csrf |-> IF returned[p].some THEN Some(returned[p].val.csrf) ELSE None,
     unauthorized |-> \E i \in 1..Len(rcvd[p]) :
                         ~rcvd[p][i].failed /\ rcvd[p][i].status = UNAUTHORIZED]

\* An operation is called: it builds its request and enters send(), which
\* attaches the stored token, clones the request and sends the original.
Call(p, o, c) ==
    /\ pc[p] \in {"idle", "done"}
    /\ calls < limit
    /\ calls' = calls + 1
    /\ LET attached == add_csrf_header(csrf_token, BuildRequest(o, c))
           clone == try_clone(attached.request)
       IN  /\ csrf_token' = attached.cell
           /\ backup' = [backup EXCEPT ![p] = clone]
           /\ IF clone.some
              THEN /\ pc' = [pc EXCEPT ![p] = "original"]
                   /\ sent' = [sent EXCEPT ![p] =
                        IF traced
                        THEN <<[at |-> "original", request |-> attached.request]>>
                        ELSE <<>>]
                   /\ result' = [result EXCEPT ![p] = None]
              ELSE /\ pc' = [pc EXCEPT ![p] = "done"]
                   /\ sent' = [sent EXCEPT ![p] = <<>>]
                   /\ result' = [result EXCEPT ![p] = Some(Err([kind |-> "clone"]))]
    /\ op' = [op EXCEPT ![p] = o]
    /\ arg' = [arg EXCEPT ![p] = IF o \in Listings THEN None ELSE Some(c)]
    /\ returned' = [returned EXCEPT ![p] = None]
    /\ found' = [found EXCEPT ![p] = None]
    /\ rcvd' = [rcvd EXCEPT ![p] = <<>>]
    /\ start' = [start EXCEPT ![p] = IF traced THEN csrf_token ELSE None]
    /\ prev' = [prev EXCEPT ![p] =
                    IF traced /\ pc[p] = "done" THEN Some(Summary(p)) ELSE None]
    /\ UNCHANGED <<net, issued, limit, traced, writer, pure_vars>>

\* The method of the request the caller waits on: login() posts, every
\* other exchange is the operation's request or a copy of it.
Awaited(p) == IF pc[p] = "login" THEN "POST" ELSE backup[p].val.method

\* The router answers the request a caller waits on.
Respond(p) ==
    /\ pc[p] \in Waiting
    /\ ~net[p].some
    /\ \E r \in Replies(Awaited(p), pc[p]) :
          /\ net' = [net EXCEPT ![p] = Some(r)]
          /\ issued' = IF ~r.failed /\ r.csrf.some /\ r.csrf.val.ascii
                       THEN issued + 1 ELSE issued
    /\ UNCHANGED <<csrf_token, pc, op, arg, backup, returned, result, found,
                   sent, rcvd, start, prev, calls, limit, traced, writer,
                   pure_vars>>

\* send(), from the response it keeps to its return, and the operation's code
\* after send(): the token of the response replaces the stored one; a
\* listing operation then sends its own GET, a command returns.
Finish(p, response) ==
    LET token == get_csrf_token(response.csrf)
    IN  IF ~token.ok
        THEN /\ Return(p, Err(token.err))
             /\ UNCHANGED <<csrf_token, writer, returned, sent>>
        ELSE /\ csrf_token' = token.val
             /\ writer' = Some(p)
             /\ returned' = [returned EXCEPT ![p] = Some(response)]
             /\ IF op[p] \in Listings
                THEN /\ Transmit(p, FollowupRequest(op[p]), "followup")
                     /\ UNCHANGED result
                ELSE /\ Return(p, Ok(Unit))
                     /\ UNCHANGED sent

\* What login() can get from the .netrc file: the entry of the host, if
\* any, and what get_password makes of it.
Lookups ==
    {[machine |-> FindMachine(netrc, Hostname),
      password |-> get_password(netrc, Hostname)] : netrc \in Netrcs}

\* login(), up to its request: the password is looked up and posted.
LoginRequest(p, lookup) ==
    LET password == lookup.password
    IN  /\ found' = [found EXCEPT ![p] = IF traced THEN lookup.machine ELSE None]
        /\ IF ~password.ok
           THEN /\ Return(p, Err([kind |-> "login", cause |-> password.err]))
                /\ UNCHANGED sent
           ELSE /\ Transmit(p, Request("POST", login_url,
                                Some(Login("peter@peca.dk", password.val))), "login")
                /\ UNCHANGED result

\* Every error status starts the login, not 401 alone.
OriginalOutcomeAnyStatus(r) ==
    IF r.failed THEN [next |-> "fail", err |-> [kind |-> "transport"]]
    ELSE IF error_for_status(r).ok THEN [next |-> "keep"] ELSE [next |-> "login"]

\* What send() does with the reply to the original request: keep it, log in
\* (the status is exactly 401), or fail.  An error made by error_for_status always
\* has a status, so "Failed to get status from response" cannot happen.
OriginalOutcome(r) ==
    IF r.failed THEN [next |-> "fail", err |-> [kind |-> "transport"]]
    ELSE LET checked == error_for_status(r)
         IN  IF checked.ok THEN [next |-> "keep"]
             ELSE IF checked.err.status = UNAUTHORIZED THEN [next |-> "login"]
             ELSE [next |-> "fail", err |-> checked.err]

\* The status of the reply to the re-sent request is not looked at.
RetryOutcomeUnchecked(r) ==
    IF r.failed THEN Err([kind |-> "transport"]) ELSE Ok(r)

\* backup.send()?.error_for_status()?
RetryOutcome(r) ==
    IF r.failed THEN Err([kind |-> "transport"]) ELSE error_for_status(r)

\* The status of the reply to the login request is not looked at.
LoginOutcomeUnchecked(r) ==
    IF r.failed THEN Err([kind |-> "login", cause |-> [kind |-> "transport"]])
    ELSE get_csrf_token(r.csrf)

\* login(), from the reply to its request: the token to store, or the error.
LoginOutcome(r) ==
    IF r.failed THEN Err([kind |-> "login", cause |-> [kind |-> "transport"]])
    ELSE LET checked == error_for_status(r)
         IN  IF ~checked.ok THEN Err([kind |-> "login", cause |-> checked.err])
             ELSE LET token == get_csrf_token(r.csrf)
                  IN  IF ~token.ok
                      THEN Err([kind |-> "login", cause |-> token.err])
                      ELSE token

\* A listing operation, from the reply to its own GET: send()?,
\* error_for_status()?, json()? and the map to Client.
FollowupOutcome(r) ==
    IF r.failed THEN Err([kind |-> "transport"])
    ELSE LET checked == error_for_status(r)
         IN  IF ~checked.ok THEN Err(checked.err)
             ELSE DecodeClients(r.body.val)

\* send() reads the reply to the original request.
OriginalResponse(p) ==
    /\ pc[p] = "original"
    /\ net[p].some
    /\ Receive(p)
    /\ LET r == net[p].val
           outcome == OriginalOutcome(r)
           none == [machine |-> None, password |-> get_password(Unreadable, Hostname)]
       IN  \E lookup \in (IF outcome.next = "login" THEN Lookups ELSE {none}) :
              CASE outcome.next = "keep" ->
                     /\ Finish(p, r)
                     /\ UNCHANGED found
                [] outcome.next = "login" ->
                     /\ LoginRequest(p, lookup)
                     /\ UNCHANGED <<csrf_token, writer, returned>>
                [] outcome.next = "fail" ->
                     /\ Return(p, Err(outcome.err))
                     /\ UNCHANGED <<csrf_token, writer, returned, found, sent>>
    /\ UNCHANGED <<op, arg, backup, start, prev, issued, calls, limit, traced,
                   pure_vars>>

\* login() reads the reply to its request and stores its token; send() then
\* re-sends the clone.
LoginResponse(p) ==
    /\ pc[p] = "login"
    /\ net[p].some
    /\ Receive(p)
    /\ LET token == LoginOutcome(net[p].val)
       IN  IF ~token.ok
           THEN /\ Return(p, Err(token.err))
                /\ UNCHANGED <<csrf_token, writer, sent>>
           ELSE /\ csrf_token' = token.val
                /\ writer' = Some(p)
                /\ Transmit(p, backup[p].val, "retry")
                /\ UNCHANGED result
    /\ UNCHANGED <<op, arg, backup, returned, found, start, prev, issued, calls,
                   limit, traced, pure_vars>>

\* The re-sent request goes through send() again: its reply is read as the
\* reply to an original request is, and a 401 starts another login.
RetryResponseAgain(p) ==
    /\ pc[p] = "retry"
    /\ net[p].some
    /\ Receive(p)
    /\ LET r == net[p].val
           outcome == OriginalOutcome(r)
           none == [machine |-> None, password |-> get_password(Unreadable, Hostname)]
       IN  \E lookup \in (IF outcome.next = "login" THEN Lookups ELSE {none}) :
              CASE outcome.next = "keep" ->
                     /\ Finish(p, r)
                     /\ UNCHANGED found
                [] outcome.next = "login" ->
                     /\ LoginRequest(p, lookup)
                     /\ UNCHANGED <<csrf_token, writer, returned>>
                [] outcome.next = "fail" ->
                     /\ Return(p, Err(outcome.err))
                     /\ UNCHANGED <<csrf_token, writer, returned, found, sent>>
    /\ UNCHANGED <<op, arg, backup, start, prev, issued, calls, limit, traced,
                   pure_vars>>

\* send() reads the reply to the re-sent request.
RetryResponse(p) ==
    /\ pc[p] = "retry"
    /\ net[p].some
    /\ Receive(p)
    /\ LET response == RetryOutcome(net[p].val)
       IN  IF ~response.ok
           THEN /\ Return(p, Err(response.err))
                /\ UNCHANGED <<csrf_token, writer, returned, sent>>
           ELSE Finish(p, response.val)
    /\ UNCHANGED <<op, arg, backup, found, start, prev, issued, calls, limit,
                   traced, pure_vars>>

\* A listing operation reads the reply to its own GET and decodes it.
FollowupResponse(p) ==
    /\ pc[p] = "followup"
    /\ net[p].some
    /\ Receive(p)
    /\ Return(p, FollowupOutcome(net[p].val))
    /\ UNCHANGED <<csrf_token, writer, op, arg, backup, returned, found, sent,
                   start, prev, issued, calls, limit, traced, pure_vars>>

Step(p) ==
    \/ Respond(p)
    \/ OriginalResponse(p)
    \/ LoginResponse(p)
    \/ RetryResponse(p)
    \/ FollowupResponse(p)

\* The program as main.rs runs it: one caller, one call at a time.
Main == "a"

CallInTurn(o, c) == Call(Main, o, c)

Next ==
    \/ \E o \in Ops, c \in Clients : CallInTurn(o, c)
    \/ Step(Main)

Spec == Init /\ [][Next]_vars

\* UnifiDreamRouter::new has run and nothing has been called.
Constructed ==
    /\ csrf_token = None
    /\ pc = [p \in Callers |-> "idle"]
    /\ op = [p \in Callers |-> "known_clients"]
    /\ arg = [p \in Callers |-> None]
    /\ backup = [p \in Callers |-> None]
    /\ returned = [p \in Callers |-> None]
    /\ result = [p \in Callers |-> None]
    /\ found = [p \in Callers |-> None]
    /\ net = [p \in Callers |-> None]
    /\ sent = [p \in Callers |-> <<>>]
    /\ rcvd = [p \in Callers |-> <<>>]
    /\ start = [p \in Callers |-> None]
    /\ prev = [p \in Callers |-> None]
    /\ issued = 0
    /\ calls = 0
    /\ writer = None

\* Every HTTP exchange completes and the caller runs on: a reply that is
\* due arrives and a reply that has arrived is read.
InitFair ==
    /\ Constructed
    /\ limit = MaxFairCalls
    /\ traced = TRUE
    /\ reply = None
    /\ listed = None
    /\ before = <<>>
    /\ after = <<>>
    /\ diff = None

SpecFair == InitFair /\ [][Next]_vars /\ WF_vars(Step(Main))

\* Two callers share the instance; their calls interleave at the exchanges.
\* The claims of this specification are about the stored token, so the
\* histories are not recorded and every client list is empty.
InitShared ==
    /\ csrf_token = None
    /\ pc = [p \in Callers |-> "idle"]
    /\ op = [p \in Callers |-> "known_clients"]
    /\ arg = [p \in Callers |-> None]
    /\ backup = [p \in Callers |-> None]
    /\ returned = [p \in Callers |-> None]
    /\ result = [p \in Callers |-> None]
    /\ found = [p \in Callers |-> None]
    /\ net = [p \in Callers |-> None]
    /\ sent = [p \in Callers |-> <<>>]
    /\ rcvd = [p \in Callers |-> <<>>]
    /\ start = [p \in Callers |-> None]
    /\ prev = [p \in Callers |-> None]
    /\ issued = 0
    /\ calls = 0
    /\ limit = MaxSharedCalls
    /\ traced = FALSE
    /\ writer = None
    /\ reply = None
    /\ listed = None
    /\ before = <<>>
    /\ after = <<>>
    /\ diff = None

NextShared ==
    \/ \E p \in Callers, o \in Ops, c \in Clients : Call(p, o, c)
    \/ \E p \in Callers : Step(p)

SpecShared == InitShared /\ [][NextShared]_vars

\* ------------------------------------------- the functions on their own
\* The raw records a listing reply can hold: RouterResponse<UnifiClient>.data
\* with the name absent or present and two mac addresses.
RawRecords ==
    {[name |-> n, mac |-> m] : n \in {None, Some("phone"), Some("tv")},
                               m \in {"aa:aa", "bb:bb"}}

\* The replies to the GET a listing operation decodes: no reply, an error
\* status, a body that is no client list, or a list of up to MaxRecords
\* records in any order, repeated records included.
ListingReplies ==
    {TransportError, Reply(500, None, None), Reply(200, None, Some(BadBody))}
    \cup {Reply(200, None, Some(Json(d))) : d \in SeqsUpTo(RawRecords, MaxRecords)}

InitDecode ==
    /\ Constructed
    /\ limit = MaxCalls
    /\ traced = TRUE
    /\ reply \in {Some(r) : r \in ListingReplies}
    /\ listed = None
    /\ before = <<>>
    /\ after = <<>>
    /\ diff = None

\* The listing operation reads the reply to its GET: lines 35-49 / 60-74.
Decode ==
    /\ reply.some
    /\ ~listed.some
    /\ listed' = Some(FollowupOutcome(reply.val))
    /\ UNCHANGED <<client_vars, reply, before, after, diff>>

NextDecode == Decode

SpecDecode == InitDecode /\ [][NextDecode]_vars

\* ------------------------------------------------------------ changes()
\* The values of T the lists given to changes() are made of.
Elements == {"x", "y", "z"}

\* Change<T>
Added(x) == [kind |-> "Added", x |-> x]

Removed(x) == [kind |-> "Removed", x |-> x]

\* The list is searched up to its first element only.
contains_first(s, x) == Len(s) >= 1 /\ s[1] = x

\* <[T]>::contains
contains(s, x) == \E i \in 1..Len(s) : s[i] = x

\* after.iter().filter_map(..) from its i-th element on: Added(x) for each
\* x that before does not contain.
RECURSIVE AddedFrom(_, _, _)
AddedFrom(b, a, i) ==
    IF i > Len(a) THEN <<>>
    ELSE (IF contains(b, a[i]) THEN <<>> ELSE <<Added(a[i])>>)
         \o AddedFrom(b, a, i + 1)

\* before.iter().filter_map(..) from its i-th element on: Removed(x) for
\* each x that after does not contain.
RECURSIVE RemovedFrom(_, _, _)
RemovedFrom(b, a, i) ==
    IF i > Len(b) THEN <<>>
    ELSE (IF contains(a, b[i]) THEN <<>> ELSE <<Removed(b[i])>>)
         \o RemovedFrom(b, a, i + 1)

\* changes(before, after): the first iterator chained with the second.
changes(b, a) == AddedFrom(b, a, 1) \o RemovedFrom(b, a, 1)

InitChanges ==
    /\ Constructed
    /\ limit = MaxCalls
    /\ traced = TRUE
    /\ reply = None
    /\ listed = None
    /\ before \in SeqsUpTo(Elements, MaxLen)
    /\ after \in SeqsUpTo(Elements, MaxLen)
    /\ diff = None

\* changes(before, after) is called.
Changes ==
    /\ ~diff.some
    /\ diff' = Some(changes(before, after))
    /\ UNCHANGED <<client_vars, reply, listed, before, after>>

NextChanges == Changes

SpecChanges == InitChanges /\ [][NextChanges]_vars

\* =============================================================== claims
\* What the claims say of a call, read off its histories.
Unauthorized(r) == ~r.failed /\ r.status = UNAUTHORIZED

\* A reply with an error status (4xx, 5xx), or no reply at all.
Failed(r) == r.failed \/ r.status >= 400

\* A reply the client can use: a 2xx status, a token header that is text
\* when there is one, and a client list as the body when there is one.
Succeeded(r) ==
    /\ ~r.failed
    /\ r.status >= 200 /\ r.status <= 299
    /\ (r.csrf.some => r.csrf.val.ascii)
    /\ (r.body.some => r.body.val.json)

SentTo(p, url) ==
    Cardinality({i \in 1..Len(sent[p]) : sent[p][i].request.url = url})

SentAt(p, at) == Cardinality({i \in 1..Len(sent[p]) : sent[p][i].at = at})

\* The .netrc file login() read names the host and gives it a password.
HasCredentials(p) == found[p].some /\ found[p].val.password.some

FirstReplyUnauthorized(p) == Len(rcvd[p]) >= 1 /\ Unauthorized(rcvd[p][1])

RecoveredCall(p) ==
    /\ pc[p] = "done"
    /\ FirstReplyUnauthorized(p)
    /\ HasCredentials(p)
    /\ \A i \in 2..Len(rcvd[p]) : Succeeded(rcvd[p][i])

\* C1: a call of any of the four operations whose first request is answered
\* 401, whose later requests (the login and all after it) are all answered
\* with a usable success reply, and for whose host .netrc holds a password,
\* returns Ok, and exactly one request has gone to the login endpoint.
C1_OneLoginThenSuccess ==
    \A p \in Callers :
        RecoveredCall(p) => result[p].val.ok /\ SentTo(p, login_url) = 1

C1_Witness ==
    \E p \in Callers :
        /\ RecoveredCall(p)
        /\ op[p] = "known_clients"
        /\ result[p].val.ok
        /\ Len(rcvd[p]) = 4

\* C2: whatever the router answers, a call sends at most one login request
\* and re-sends its request at most once; when the re-sent request gets an
\* error status (a second 401 included) or no reply, the call has returned
\* an error and the re-sent request is the last request it sent.
C2_AtMostOneLoginAndRetry ==
    \A p \in Callers :
        /\ SentTo(p, login_url) <= 1
        /\ SentAt(p, "retry") <= 1
        /\ \A i \in 1..Len(rcvd[p]) :
              (sent[p][i].at = "retry" /\ Failed(rcvd[p][i])) =>
                  /\ pc[p] = "done"
                  /\ ~result[p].val.ok
                  /\ Len(sent[p]) = i

C2_Witness ==
    \E p \in Callers :
        /\ Len(rcvd[p]) = 3
        /\ Unauthorized(rcvd[p][1])
        /\ sent[p][3].at = "retry"
        /\ Unauthorized(rcvd[p][3])
        /\ pc[p] = "done"

\* A step in which caller p reads the reply that was on its way to it.
Reads(p) == net[p].some /\ ~net'[p].some

\* C3 (as claimed): the stored token is never cleared implicitly: reading a
\* success reply without x-csrf-token (to the original request, to the
\* re-sent one, or to the login) leaves the stored token as it was, and a
\* stored token never gives way to no token.
C3_TokenNeverCleared ==
    [][/\ csrf_token.some => csrf_token'.some
       /\ \A p \in Callers :
             (/\ Reads(p)
              /\ pc[p] \in {"original", "retry", "login"}
              /\ ~Failed(net[p].val)
              /\ ~net[p].val.csrf.some) => csrf_token' = csrf_token]_vars

\* The token a listing call should send first, going by the call before it:
\* the token of the response send() returned to that call, and when that
\* response had none (or the call got no response), the token stored before
\* that call.
ExpectedAfter(call) ==
    IF call.csrf.some /\ call.csrf.val.some
    THEN Some(call.csrf.val.val.text)
    ELSE call.start

\* C4 (as claimed): in a run of listing calls with no 401, the token a
\* listing call sends is the token returned to the listing call before it,
\* or, when that call's response had no token, the token stored before that
\* call.
C4_TokenFollowsLastResponse ==
    \A p \in Callers :
        (/\ pc[p] # "idle"
         /\ Len(sent[p]) >= 1
         /\ op[p] \in Listings
         /\ prev[p].some
         /\ prev[p].val.op \in Listings
         /\ ~prev[p].val.unauthorized) =>
            sent[p][1].request.csrf = ExpectedAfter(prev[p].val)

\* C5: when the original request gets an error status other than 401, the
\* call has returned that status as its error and has sent nothing but the
\* original request: no login, no re-send.
C5_OtherFailureIsFinal ==
    \A p \in Callers :
        (/\ Len(rcvd[p]) >= 1
         /\ ~rcvd[p][1].failed
         /\ rcvd[p][1].status >= 400
         /\ rcvd[p][1].status # UNAUTHORIZED) =>
            /\ pc[p] = "done"
            /\ result[p] = Some(Err([kind |-> "status", status |-> rcvd[p][1].status]))
            /\ Len(sent[p]) = 1

C5_Witness ==
    \E p \in Callers :
        /\ Len(rcvd[p]) = 1
        /\ ~rcvd[p][1].failed
        /\ rcvd[p][1].status = 500
        /\ pc[p] = "done"

\* C6: when the original request is answered 401 and .netrc gives no
\* password for the host (the file is unreadable, does not name the host, or
\* names it without a password), the call has returned an error and has sent
\* nothing but the original request: no login request, no re-send.
C6_NoCredentialsNoLogin ==
    \A p \in Callers :
        (FirstReplyUnauthorized(p) /\ ~HasCredentials(p)) =>
            /\ pc[p] = "done"
            /\ ~result[p].val.ok
            /\ Len(sent[p]) = 1
            /\ SentTo(p, login_url) = 0

C6_Witness ==
    \E p \in Callers :
        /\ FirstReplyUnauthorized(p)
        /\ ~found[p].some
        /\ pc[p] = "done"

ListingUrl(o) ==
    IF o = "known_clients" THEN known_devices_url ELSE connected_devices_url

\* C7 (as claimed): a listing call in which no reply is 401 sends exactly one
\* GET to the listing endpoint, every request of it is one that send() sent,
\* and the list it returns is decoded from the response send() returned.
C7_OneGetThroughSend ==
    \A p \in Callers :
        (/\ pc[p] = "done"
         /\ op[p] \in Listings
         /\ \A i \in 1..Len(rcvd[p]) : ~Unauthorized(rcvd[p][i])) =>
            /\ SentTo(p, ListingUrl(op[p])) = 1
            /\ SentAt(p, "followup") = 0
            /\ result[p].val.ok =>
                  result[p].val = DecodeClients(returned[p].val.body.val)

\* A call that has returned Ok and whose response from send() had a token.
DoneWithToken(p) ==
    /\ pc[p] = "done"
    /\ result[p].val.ok
    /\ returned[p].some
    /\ returned[p].val.csrf.some
    /\ returned[p].val.csrf.val.ascii

TokenOf(p) == Some(returned[p].val.csrf.val.text)

\* C8: when two callers have each completed an operation on the shared
\* instance successfully and send() returned a response with a token to
\* each, the stored token is the token of one of those two responses,
\* however their exchanges interleaved.
C8_FinalTokenIsOneOfTwo ==
    (\A p \in Callers : DoneWithToken(p)) =>
        csrf_token \in {TokenOf(p) : p \in Callers}

\* Both calls overlapped and the reply issued first was stored last.
C8_Witness ==
    /\ \A p \in Callers : DoneWithToken(p)
    /\ \E p, q \in Callers :
          /\ csrf_token = TokenOf(p)
          /\ TokenOf(p).val < TokenOf(q).val

\* A step of caller p: it starts a call or reads a reply.
Acts(p) == pc'[p] # pc[p]

C10_LoginBodyFromNetrc ==
    \A p \in Callers :
        \A i \in 1..Len(sent[p]) :
            sent[p][i].at = "login" =>
                /\ sent[p][i].request.method = "POST"
                /\ sent[p][i].request.url = login_url
                /\ sent[p][i].request.body =
                      Some(Login(found[p].val.login.val, found[p].val.password.val))

\* The reply to the i-th request of the call of p has been read, the request
\* was the login request, and the reply is a failure.
LoginFailedAt(p, i) ==
    /\ i <= Len(sent[p])
    /\ i <= Len(rcvd[p])
    /\ sent[p][i].at = "login"
    /\ Failed(rcvd[p][i])

\* C11: when the login request of a call is answered with an error status or
\* fails in transport, the call is over with that request as its last one:
\* one request went to the login endpoint, the clone was never sent, and the
\* operation returned the login failure.
C11_LoginFailureIsFinal ==
    \A p \in Callers :
        \A i \in 1..Len(rcvd[p]) :
            LoginFailedAt(p, i) =>
                /\ pc[p] = "done"
                /\ Len(sent[p]) = i
                /\ SentTo(p, login_url) = 1
                /\ SentAt(p, "retry") = 0
                /\ result[p].some
                /\ ~result[p].val.ok
                /\ result[p].val.err.kind = "login"

C11_Witness ==
    \E p \in Callers :
        /\ pc[p] = "done"
        /\ FirstReplyUnauthorized(p)
        /\ LoginFailedAt(p, 2)
        /\ ~rcvd[p][2].failed
        /\ backup[p].some

\* The value of the "cmd" field of the body of a command operation.
CmdOf(o) == IF o = "block_client" THEN "block-sta" ELSE "unblock-sta"

\* C12: every request a call of block_client(c) or unblock_client(c) sends
\* as its own (the original and its re-send after a 401) is a POST to
\* <site>/cmd/stamgr whose body has cmd = "block-sta" for block_client and
\* "unblock-sta" for unblock_client, and mac = the mac address of c.
C12_CommandBody ==
    \A p \in Callers :
        (arg[p].some /\ pc[p] # "idle") =>
            /\ Len(sent[p]) >= 1
            /\ sent[p][1].at = "original"
            /\ \A i \in 1..Len(sent[p]) :
                  sent[p][i].at \in {"original", "retry"} =>
                      /\ sent[p][i].request.method = "POST"
                      /\ sent[p][i].request.url = cmd_url
                      /\ sent[p][i].request.body =
                            Some([cmd |-> CmdOf(op[p]), mac |-> arg[p].val.mac])

C12_Witness ==
    \E p \in Callers :
        /\ op[p] = "unblock_client"
        /\ arg[p].some
        /\ arg[p].val.mac = "bb:bb"
        /\ Len(sent[p]) = 3
        /\ sent[p][3].at = "retry"
        /\ sent[p][3].request.body.val.cmd = "unblock-sta"

\* The reply holds a client list the operation can decode.
Decodable(r) == ~r.failed /\ r.status < 400 /\ r.body.some /\ r.body.val.json

\* C13: the Clients a listing operation returns are the raw records of the
\* data list of the reply it decodes, one Client per record and in the same
\* order; each has the mac of its record and the name of its record, or
\* "<unnamed client>" when the record has no name.
C13_OneClientPerRecord ==
    (listed.some /\ Decodable(reply.val)) =>
        LET data == reply.val.body.val.data
        IN  /\ listed.val.ok
            /\ Len(listed.val.val) = Len(data)
            /\ \A i \in 1..Len(data) :
                  /\ listed.val.val[i].mac = data[i].mac
                  /\ listed.val.val[i].name =
                        IF data[i].name.some THEN data[i].name.val
                        ELSE "<unnamed client>"

C13_Witness ==
    /\ listed.some
    /\ Decodable(reply.val)
    /\ Len(reply.val.body.val.data) = 3
    /\ ~reply.val.body.val.data[1].name.some
    /\ reply.val.body.val.data[2].name = Some("tv")
    /\ reply.val.body.val.data[1].mac # reply.val.body.val.data[2].mac
    /\ reply.val.body.val.data[3] = reply.val.body.val.data[1]
    /\ listed.val.val[1].name = "<unnamed client>"
    /\ listed.val.val[2].name = "tv"

\* The number of places of s that hold e.
Occurrences(s, e) == Cardinality({i \in 1..Len(s) : s[i] = e})

\* C14: changes(before, after) holds Added(x) once for each occurrence in
\* after of an x that does not occur in before, Removed(x) once for each
\* occurrence in before of an x that does not occur in after, and nothing
\* else; in particular it is empty when before = after.
C14_ChangesExactly ==
    diff.some =>
        LET d == diff.val
            inBefore(x) == Occurrences(before, x) > 0
            inAfter(x) == Occurrences(after, x) > 0
        IN  /\ \A x \in Elements :
                  /\ Occurrences(d, Added(x)) =
                        IF inBefore(x) THEN 0 ELSE Occurrences(after, x)
                  /\ Occurrences(d, Removed(x)) =
                        IF inAfter(x) THEN 0 ELSE Occurrences(before, x)
            /\ \A i \in 1..Len(d) :
                  \E x \in Elements : d[i] \in {Added(x), Removed(x)}
            /\ (before = after => d = <<>>)

C14_Witness ==
    /\ diff.some
    /\ before = <<"x", "y", "x">>
    /\ after = <<"y", "z", "y">>
    /\ Len(diff.val) = 3
    /\ Occurrences(diff.val, Removed("x")) = 2
    /\ Occurrences(diff.val, Added("z")) = 1

\* C15: the request sent after a 401 and a login that succeeded is the
\* original request as it was sent: same method, URL and body, and the same
\* x-csrf-token header (absent, or present with the same value), whatever
\* token the login has stored since.
C15_RetryIsTheOriginal ==
    \A p \in Callers :
        \A i \in 1..Len(sent[p]) :
            sent[p][i].at = "retry" =>
                /\ sent[p][1].at = "original"
                /\ sent[p][i].request.method = sent[p][1].request.method
                /\ sent[p][i].request.url = sent[p][1].request.url
                /\ sent[p][i].request.body = sent[p][1].request.body
                /\ sent[p][i].request.csrf = sent[p][1].request.csrf

\* The login stored token 2 and the re-sent request carries token 1.
C15_Witness ==
    \E p \in Callers :
        /\ pc[p] = "retry"
        /\ Len(sent[p]) = 3
        /\ sent[p][3].at = "retry"
        /\ sent[p][1].request.csrf.some
        /\ sent[p][3].request.csrf = sent[p][1].request.csrf
        /\ csrf_token.some
        /\ csrf_token # sent[p][1].request.csrf

\* Caller p starts a call: send() attaches the header and sends the request.
Starts(p) == pc[p] \in {"idle", "done"} /\ pc'[p] = "original"

\* C16: the first request of a call carries an x-csrf-token header exactly
\* when a token is stored as the call starts, and the header is that token;
\* the first call after construction carries none; attaching leaves the
\* stored token as it was.
C16_HeaderIsStoredToken ==
    [][\A p \in Callers :
          Starts(p) =>
              /\ Len(sent'[p]) = 1
              /\ sent'[p][1].request.csrf = csrf_token
              /\ (calls = 0 => ~sent'[p][1].request.csrf.some)
              /\ csrf_token' = csrf_token]_vars

\* A call has just started with token 2 stored: its request carries token 2.
C16_Witness ==
    \E p \in Callers :
        /\ pc[p] = "original"
        /\ ~net[p].some
        /\ calls >= 2
        /\ Len(sent[p]) = 1
        /\ sent[p][1].request.csrf.some
        /\ sent[p][1].request.csrf = start[p]
        /\ csrf_token = start[p]
        /\ issued >= 2

\* The reply caller p reads is the one to its original request, and it is a
\* failure that does not start the login.
FailsWithoutLogin(p) ==
    /\ pc[p] = "original"
    /\ Reads(p)
    /\ Failed(net[p].val)
    /\ ~Unauthorized(net[p].val)

\* The reply caller p reads is not a failure and is the reply to the login
\* request or the last reply send() waits for.
ReadsUsableReply(p) ==
    /\ pc[p] \in {"original", "login", "retry"}
    /\ Reads(p)
    /\ ~Failed(net[p].val)

\* C17: a call whose original request fails in transport or is answered with
\* an error status other than 401 ends there with the stored token as it was
\* when the call began; and the stored token changes only in a step that
\* reads a login reply or a final reply that is no failure.
C17_FailureKeepsToken ==
    [][/\ \A p \in Callers :
             FailsWithoutLogin(p) =>
                 /\ pc'[p] = "done"
                 /\ ~result'[p].val.ok
                 /\ csrf_token' = start[p]
                 /\ SentTo(p, login_url) = 0
       /\ (csrf_token' # csrf_token =>
               \E p \in Callers : ReadsUsableReply(p))]_vars

\* A call that began with a token stored has failed on its first reply.
C17_Witness ==
    \E p \in Callers :
        /\ pc[p] = "done"
        /\ Len(rcvd[p]) = 1
        /\ Failed(rcvd[p][1])
        /\ ~Unauthorized(rcvd[p][1])
        /\ start[p].some
        /\ csrf_token = start[p]
        /\ ~result[p].val.ok

\* The number of HTTP exchanges a call of operation o may take: original,
\* login and retry, and the GET of a listing operation.
MaxExchanges(o) == IF o \in {"block_client", "unblock_client"} THEN 3 ELSE 4

\* A call in progress has sent no more requests than its operation may,
\* at most one of them a login request and at most one a re-sent request.
WithinExchanges(p) ==
    /\ Len(sent[p]) <= MaxExchanges(op[p])
    /\ SentAt(p, "login") <= 1
    /\ SentAt(p, "retry") <= 1
    /\ SentAt(p, "original") <= 1

\* C18: when every HTTP exchange completes, every call returns (a result or
\* a failure), whatever the router answers; it takes at most three HTTP
\* exchanges for block / unblock and at most four for a listing operation,
\* and sends at most one login request and at most one re-sent request.
C18_CallTerminates ==
    /\ [](\A p \in Callers : WithinExchanges(p))
    /\ (pc[Main] \in Waiting) ~> (pc[Main] = "done" /\ result[Main].some)

\* A listing call has returned after four exchanges, and the call before it,
\* a command, after three.
C18_Witness ==
    \E p \in Callers :
        /\ pc[p] = "done"
        /\ result[p].some
        /\ op[p] \in Listings
        /\ Len(sent[p]) = 4
        /\ Len(rcvd[p]) = 4
        /\ prev[p].some
        /\ prev[p].val.op \in {"block_client", "unblock_client"}
        /\ prev[p].val.unauthorized

====
